---- MODULE Spec2Model ----
(***************************************************************************)
(* A model of omniStatus: the retrying HTTP call sites (server.py,         *)
(* consumer.py, app/services/llm.py), the text normaliser and the          *)
(* similarity clusterer (consumer.py), the adaptive parsing and the        *)
(* payload cap of the consumer's analysis (consumer.py), the time-bucket   *)
(* summary (server.py, app/main.py), and the reads of the event store      *)
(* (server.py, app/main.py, consumer.py).                                  *)
(*                                                                         *)
(* Units: delays are whole seconds, sleeps are milliseconds, scores are    *)
(* thousandths (0.8 is 800).  A string is a sequence of one-character      *)
(* strings.  A JSON value is a record [t, n, s]: its type, its number (in  *)
(* thousandths) and its string.                                            *)
(***************************************************************************)
EXTENDS Integers, Sequences, FiniteSets, TLC

VARIABLES
    site,        \* the call site being executed
    api_key,     \* server.py OPENAI_API_KEY is non-empty
    tg_enabled,  \* consumer.py ENABLE_TELEGRAM
    params,      \* with_retries' max_attempts, base_delay, max_delay
    pc,          \* position of the call
    attempt,     \* with_retries' local attempt
    history,     \* outcomes of the invocations of request_fn, in order
    sleeps,      \* the time.sleep calls made, in order
    ret,         \* what with_retries handed to its caller
    result,      \* what the call site returned
    nt_in,       \* normalize_text: the argument
    nt_once,     \* normalize_text(s)
    nt_twice,    \* normalize_text(normalize_text(s))
    nt_pc,
    threshold,   \* group_similar_events: <<numerator, denominator>>
    groups,      \* group_similar_events' local groups
    seen,        \* per group, the timestamps of the events merged into it
    processed,   \* number of events the loop has consumed
    last_evt,    \* the event consumed last and the group it went to
    g_pc,
    returned,    \* group_similar_events' return value
    ta_in,       \* trigger_analysis: what call_llm_analysis returned
    ta_out,      \* trigger_analysis: the response, or the exception
    ta_pc,
    sm_impl,     \* summarize_collection: "server" (server.py) or "app" (app/main.py)
    sm_mode,     \* summarize_collection's mode
    sm_inputs,   \* the family of records the collection holds
    sm_limit,    \* limit_buckets, 0 until it is read
    buckets,     \* summarize_collection's local buckets: key -> count, scores, texts
    sm_assigned, \* per key, what the records put under it were (not program state)
    sm_n,        \* number of records the loop has consumed
    sm_resolved, \* number of those whose timestamp denotes an instant
    sm_pc,
    sm_items,    \* summarize_collection's return value
    pm_mode,     \* summarize_collection over a whole list: mode
    pm_limit,    \* limit_buckets, 0 until it is read
    pm_raw,      \* the records read, in order
    pm_items,    \* the return value
    pm_pc,
    pl_model,      \* call_llm_analysis' model argument
    pl_configured, \* OPENAI_MODEL
    pl_events,     \* events_list as handed in
    pl_sent,       \* the events of the payload
    pl_pc,
    sr_op,       \* a read of the event store: the function reading
    sr_mode,     \* its mode, for summarize_collection
    sr_start,    \* its start argument: "none", "valid" or "invalid"
    sr_docs,     \* the documents the cursor has handed out
    sr_err,      \* the driver's exception, "none" while there is none
    sr_out,      \* what the function returned, or the exception it let through
    sr_pc

retryVars == <<site, api_key, tg_enabled, params, pc, attempt, history, sleeps, ret, result>>
normVars == <<nt_in, nt_once, nt_twice, nt_pc>>
groupVars == <<threshold, groups, seen, processed, last_evt, g_pc, returned>>
adaptVars == <<ta_in, ta_out, ta_pc>>
earlierVars == <<retryVars, normVars, groupVars>>
sumVars ==
    <<sm_impl, sm_mode, sm_inputs, sm_limit, buckets, sm_assigned, sm_n, sm_resolved,
      sm_pc, sm_items>>
permVars == <<pm_mode, pm_limit, pm_raw, pm_items, pm_pc>>
payVars == <<pl_model, pl_configured, pl_events, pl_sent, pl_pc>>
storeVars == <<sr_op, sr_mode, sr_start, sr_docs, sr_err, sr_out, sr_pc>>
laterVars == <<adaptVars, sumVars, permVars, payVars, storeVars>>
vars == <<retryVars, normVars, groupVars, laterVars>>

----------------------------------------------------------------------------
(* Bounds of the model *)

JitterSteps == 2      \* random.random() is drawn from {0/J, ..., (J-1)/J}
MaxAttemptsBound == 3 \* largest max_attempts handed to with_retries directly
MaxBaseDelay == 2     \* largest base_delay handed to with_retries directly
SmallMaxDelay == 3    \* a max_delay small enough for the cap to act

(* Program constants *)

DefaultMaxAttempts == 3
DefaultBaseDelay == 1
ServerMaxDelay == 15
ConsumerMaxDelay == 30
ServerJitterLow == 600
ServerJitterSpan == 800
ConsumerJitterLow == 500
ConsumerJitterSpan == 1000

----------------------------------------------------------------------------
(* JSON values *)

JV(t, n, s) == [t |-> t, n |-> n, s |-> s]
Missing == JV("missing", 0, "")
Null == JV("null", 0, "")
Num(k) == JV("num", k, "")
Str(x) == JV("str", 0, x)
NaN == JV("nan", 0, "")
PosInf == JV("posinf", 0, "")
NegInf == JV("neginf", 0, "")
JList == JV("list", 0, "")

\* Python truthiness of a value obtained with dict.get
Truthy(v) ==
    CASE v.t \in {"missing", "null", "false", "emptylist"} -> FALSE
      [] v.t = "str" -> v.s # ""
      [] v.t = "num" -> v.n # 0
      [] OTHER -> TRUE

\* the values the model's "score" and "text" keys take
ScoreInputs ==
    {Missing, Null, Num(0 - 500), Num(800), Num(1500), NaN, PosInf, NegInf,
     Str("0.8"), Str("high"), JList}
TextInputs == {Missing, Null, Str(""), Str("intrusion"), Num(5000)}

----------------------------------------------------------------------------
(* HTTP outcomes.  The content of a 200 body is a sequence of tokens:      *)
(* "txt" is text without braces that is no JSON, "val" is a JSON value     *)
(* that is no object, "{" and "}" are lone braces, and "obj" is the text   *)
(* of a JSON object with the body's score and text.                        *)

Tokens == {"txt", "val", "{", "}", "obj"}
Contents == {<<>>} \cup {<<t>> : t \in Tokens} \cup {<<s, t>> : s, t \in Tokens}
HasObj(c) == \E i \in 1..Len(c) : c[i] = "obj"

Body(kind, content, score, text) ==
    [kind |-> kind, content |-> content, score |-> score, text |-> text]
NoBody == Body("none", <<>>, Missing, Missing)
Bodies ==
    {Body("notjson", <<>>, Missing, Missing),
     Body("nochoices", <<>>, Missing, Missing),
     Body("nullcontent", <<>>, Missing, Missing)}
    \cup {Body("content", c, Missing, Missing) : c \in {d \in Contents : ~HasObj(d)}}
    \cup {Body("content", c, sc, tx) :
            c \in {d \in Contents : HasObj(d)}, sc \in ScoreInputs, tx \in TextInputs}

Statuses == {200, 401, 404, 429, 500, 502, 503, 504}

Outcome(kind, status, body) == [kind |-> kind, status |-> status, body |-> body]
Timeout == Outcome("timeout", 0, NoBody)
OtherError == Outcome("error", 0, NoBody)
FullOutcomes ==
    {Timeout, OtherError}
    \cup {Outcome("response", st, NoBody) : st \in Statuses \ {200}}
    \cup {Outcome("response", 200, b) : b \in Bodies}
PlainOutcomes ==
    {Timeout, OtherError} \cup {Outcome("response", st, NoBody) : st \in Statuses}
\* what the notification request can give: the above and a 204
TelegramOutcomes == PlainOutcomes \cup {Outcome("response", 204, NoBody)}

Sites ==
    {"server_analyze", "app_analyze", "consumer_llm", "consumer_telegram"}
DirectSites == {"direct_server", "direct_consumer"}

\* the outcomes the site's request can have
Outcomes(s) ==
    IF s \in {"server_analyze", "app_analyze", "consumer_llm"}
    THEN FullOutcomes
    ELSE IF s = "consumer_telegram" THEN TelegramOutcomes ELSE PlainOutcomes

----------------------------------------------------------------------------
(* with_retries *)

RECURSIVE Pow2(_)
Pow2(n) == IF n <= 0 THEN 1 ELSE 2 * Pow2(n - 1)

MinOf(a, b) == IF a <= b THEN a ELSE b

RetryStatusesWith401 == {401, 429, 500, 502, 503, 504}
\* the statuses with_retries retries on
RetryStatuses == {429, 500, 502, 503, 504}

\* the statuses on which server.py's _r calls raise_for_status
ServerRaiseStatuses == RetryStatuses

\* which with_retries a site calls
Variant(s) ==
    CASE s \in {"server_analyze", "direct_server"} -> "server"
      [] s \in {"consumer_llm", "consumer_telegram", "direct_consumer"} -> "consumer"
      [] OTHER -> "none"

DefaultParams(s) ==
    [max_attempts |-> DefaultMaxAttempts,
     base_delay |-> DefaultBaseDelay,
     max_delay |-> IF Variant(s) = "consumer" THEN ConsumerMaxDelay ELSE ServerMaxDelay]

\* whether request_fn raises on this outcome
RequestFnRaises(s, o) ==
    \/ o.kind \in {"timeout", "error"}
    \/ s = "server_analyze" /\ o.status \in ServerRaiseStatuses
    \/ s \in DirectSites /\ o.status # 200

\* getattr(getattr(e, "response", None), "status_code", None); 0 is None
ExcStatus(o) == IF o.kind = "response" THEN o.status ELSE 0

IsRetriable(o) == o.kind = "timeout" \/ ExcStatus(o) \in RetryStatuses

ShouldRaiseOffByOne(a, max_attempts, retriable) == a > max_attempts \/ ~retriable
\* if attempt >= max_attempts or not retriable: raise
ShouldRaise(a, max_attempts, retriable) == a >= max_attempts \/ ~retriable

ServerBackoffDelay(a, status, base_delay, max_delay) ==
    LET sleep_s == MinOf(max_delay, base_delay * Pow2(a - 1))
    IN  IF status = 429 THEN sleep_s * 2 ELSE sleep_s

ConsumerBackoffDelay(a, status, base_delay, max_delay) ==
    IF status = 429
    THEN MinOf(max_delay, base_delay * Pow2(a - 1) * 2)
    ELSE MinOf(max_delay, base_delay * Pow2(a - 1))

BackoffDelay(v, a, status, base_delay, max_delay) ==
    IF v = "server"
    THEN ServerBackoffDelay(a, status, base_delay, max_delay)
    ELSE ConsumerBackoffDelay(a, status, base_delay, max_delay)

\* sleep_s *= (0.5 + random.random()), in milliseconds, random.random() = r/J
ConsumerSleepMs(delay, r) ==
    (delay * (ConsumerJitterLow * JitterSteps + ConsumerJitterSpan * r)) \div JitterSteps

ServerSleepMsWideJitter(delay, r) ==
    (delay * (500 * JitterSteps + 1000 * r)) \div JitterSteps
\* sleep_s *= (0.6 + random.random() * 0.8)
ServerSleepMs(delay, r) ==
    (delay * (ServerJitterLow * JitterSteps + ServerJitterSpan * r)) \div JitterSteps

SleepMs(v, delay, r) ==
    IF v = "server" THEN ServerSleepMs(delay, r) ELSE ConsumerSleepMs(delay, r)

----------------------------------------------------------------------------
(* Parsing the scoring service's answer *)

Res(kind, ok, score, text) == [kind |-> kind, ok |-> ok, score |-> score, text |-> text]
NoResult == Res("none", FALSE, Missing, Missing)
Raise == Res("raise", FALSE, Missing, Missing)
Sentinel(msg) == Res("dict", TRUE, Num(0), Str(msg))
NoOutcome == Outcome("none", 0, NoBody)

\* json.loads of the text the tokens spell
JsonLoads(c, b) ==
    CASE c = <<"obj">> -> [ok |-> TRUE, isobj |-> TRUE, score |-> b.score, text |-> b.text]
      [] c = <<"{", "}">> -> [ok |-> TRUE, isobj |-> TRUE, score |-> Missing, text |-> Missing]
      [] c = <<"val">> -> [ok |-> TRUE, isobj |-> FALSE, score |-> Missing, text |-> Missing]
      [] OTHER -> [ok |-> FALSE, isobj |-> FALSE, score |-> Missing, text |-> Missing]

Opens(t) == t \in {"{", "obj"}
Closes(t) == t \in {"}", "obj"}

\* re.search(r"\{.*\}", content, flags=re.DOTALL): the leftmost "{" that has
\* a "}" after it, up to the last "}"
RegexBraces(c) ==
    LET starts == {i \in 1..Len(c) :
                     /\ Opens(c[i])
                     /\ \E j \in i..Len(c) : Closes(c[j]) /\ (j > i \/ c[i] = "obj")}
        ends == {j \in 1..Len(c) : Closes(c[j])}
    IN  IF starts = {}
        THEN [found |-> FALSE, text |-> <<>>]
        ELSE LET i == CHOOSE x \in starts : \A y \in starts : x <= y
                 j == CHOOSE x \in ends : \A y \in ends : y <= x
             IN  [found |-> TRUE, text |-> SubSeq(c, i, j)]

\* float(x)
PyFloat(v) ==
    CASE v.t \in {"num", "nan", "posinf", "neginf"} -> [ok |-> TRUE, v |-> v]
      [] v.t = "str" /\ v.s = "0.8" -> [ok |-> TRUE, v |-> Num(800)]
      [] OTHER -> [ok |-> FALSE, v |-> Num(0)]

\* x < y on Python floats
FloatLt(x, y) ==
    CASE x.t = "nan" \/ y.t = "nan" -> FALSE
      [] x.t = "neginf" -> y.t # "neginf"
      [] x.t = "posinf" -> FALSE
      [] y.t = "posinf" -> TRUE
      [] y.t = "neginf" -> FALSE
      [] OTHER -> x.n < y.n

\* min(a, b) and max(a, b): the first argument unless the second beats it
PyMin(a, b) == IF FloatLt(b, a) THEN b ELSE a
PyMax(a, b) == IF FloatLt(a, b) THEN b ELSE a

NoClamp(score) == score
\* max(0.0, min(score, 1.0))
Clamp01(score) == PyMax(Num(0), PyMin(score, Num(1000)))

\* content -> parsed -> {"score": ..., "text": ...}; Raise where the code raises
ParseScored(b) ==
    IF b.kind # "content"
    THEN Raise
    ELSE
      LET direct == JsonLoads(b.content, b)
          m == RegexBraces(b.content)
          parsed ==
            IF direct.ok THEN direct
            ELSE IF m.found THEN JsonLoads(m.text, b)
            ELSE [ok |-> TRUE, isobj |-> TRUE, score |-> Num(0), text |-> Str("Parse error")]
          sc == PyFloat(IF parsed.score = Missing THEN Num(0) ELSE parsed.score)
      IN  IF ~parsed.ok \/ ~parsed.isobj \/ ~sc.ok
          THEN Raise
          ELSE Res("dict", TRUE, Clamp01(sc.v),
                   IF Truthy(parsed.text) THEN parsed.text ELSE Str("No summary"))

\* except Exception as e: return {"score": 0.0, "text": f"Analysis error: {e}"}
CatchAll(p) == IF p.kind = "raise" THEN Sentinel("Analysis error") ELSE p

\* openai_analyze after with_retries
openai_analyze(raised, o) ==
    CatchAll(
      IF raised THEN Raise
      ELSE IF o.status # 200 THEN Sentinel("OpenAI status")
      ELSE ParseScored(o.body))

\* openai_analyze_events after client.post
openai_analyze_events(raised, o) ==
    CatchAll(
      IF raised THEN Raise
      ELSE IF o.status # 200 THEN Sentinel("OpenAI status")
      ELSE ParseScored(o.body))

\* call_llm_analysis after with_retries.  The contents modelled carry no
\* surrounding whitespace and no ``` fence, so strip() and the fence cleanup
\* leave them as they are.
call_llm_analysis(raised, o) ==
    IF raised THEN Sentinel("Error during analysis")
    ELSE IF o.status >= 400 THEN Sentinel("API Error")
    ELSE IF o.body.kind # "content" THEN Sentinel("Error during analysis")
    ELSE LET p == JsonLoads(o.body.content, o.body)
         IN  IF ~p.ok THEN Sentinel("Error during analysis")
             ELSE Res(IF p.isobj THEN "raw_object" ELSE "raw_value", TRUE, p.score, p.text)

send_telegram_msgUncaught(raised, o) ==
    IF raised THEN Raise
    ELSE IF o.status < 400 THEN Res("pair", TRUE, Missing, Str("Sent"))
    ELSE Res("pair", FALSE, Missing, Str("Telegram API error"))
\* send_telegram_msg after with_retries: r.ok is status_code < 400
send_telegram_msg(raised, o) ==
    IF raised THEN Res("pair", FALSE, Missing, Str("Exception"))
    ELSE IF o.status < 400 THEN Res("pair", TRUE, Missing, Str("Sent"))
    ELSE Res("pair", FALSE, Missing, Str("Telegram API error"))

SiteResult(s, raised, o) ==
    CASE s = "server_analyze" -> openai_analyze(raised, o)
      [] s = "app_analyze" -> openai_analyze_events(raised, o)
      [] s = "consumer_llm" -> call_llm_analysis(raised, o)
      [] s = "consumer_telegram" -> send_telegram_msg(raised, o)
      [] OTHER -> Res(IF raised THEN "raised" ELSE "returned", ~raised, Missing, Missing)

----------------------------------------------------------------------------
(* The values of the variables of a part of the model that is not running *)

NormIdle ==
    /\ nt_in = [isstr |-> FALSE, s |-> <<>>]
    /\ nt_once = <<>>
    /\ nt_twice = <<>>
    /\ nt_pc = "idle"

GroupIdle ==
    /\ threshold = <<19, 20>>
    /\ groups = <<>>
    /\ seen = <<>>
    /\ processed = 0
    /\ last_evt = [text |-> <<>>, norm |-> <<>>, timestamp |-> 0, joined |-> 0]
    /\ g_pc = "idle"
    /\ returned = <<>>

AdaptIdle ==
    /\ ta_in = [top |-> "none"]
    /\ ta_out = [kind |-> "none"]
    /\ ta_pc = "idle"

SumIdle ==
    /\ sm_impl = "none"
    /\ sm_mode = "none"
    /\ sm_inputs = "none"
    /\ sm_limit = 0
    /\ buckets = <<>>
    /\ sm_assigned = <<>>
    /\ sm_n = 0
    /\ sm_resolved = 0
    /\ sm_pc = "idle"
    /\ sm_items = <<>>

PermIdle ==
    /\ pm_mode = "none"
    /\ pm_limit = 0
    /\ pm_raw = <<>>
    /\ pm_items = <<>>
    /\ pm_pc = "idle"

PayIdle ==
    /\ pl_model = <<>>
    /\ pl_configured = <<>>
    /\ pl_events = <<>>
    /\ pl_sent = <<>>
    /\ pl_pc = "idle"

StoreIdle ==
    /\ sr_op = "none"
    /\ sr_mode = "none"
    /\ sr_start = "none"
    /\ sr_docs = <<>>
    /\ sr_err = "none"
    /\ sr_out = [kind |-> "none"]
    /\ sr_pc = "idle"

LaterIdle == AdaptIdle /\ SumIdle /\ PermIdle /\ PayIdle /\ StoreIdle

RetryIdle ==
    /\ site = "none"
    /\ api_key = TRUE
    /\ tg_enabled = TRUE
    /\ params = DefaultParams("none")
    /\ pc = "idle"
    /\ attempt = 0
    /\ history = <<>>
    /\ sleeps = <<>>
    /\ ret = NoOutcome
    /\ result = NoResult

EarlierIdle == RetryIdle /\ NormIdle /\ GroupIdle

----------------------------------------------------------------------------
(* normalize_text *)

MaxNormLen == 5   \* longest string handed to normalize_text

NormChars == {"a", "A", " ", "\t", "!"}
StringsUpTo(chars, n) == UNION {[1..k -> chars] : k \in 0..n}

PyStr(x) == [isstr |-> TRUE, s |-> x]
NotAStr == [isstr |-> FALSE, s |-> <<>>]

\* str.lower() on one character
LowerChar(c) == IF c = "A" THEN "a" ELSE IF c = "B" THEN "b" ELSE c
Lower(x) == [i \in 1..Len(x) |-> LowerChar(x[i])]

\* \s
IsSpace(c) == c \in {" ", "\t"}

RECURSIVE DropSpaces(_)
DropSpaces(x) ==
    IF x # <<>> /\ IsSpace(Head(x)) THEN DropSpaces(Tail(x)) ELSE x

\* re.sub(r"\s+", " ", s)
RECURSIVE CollapseSpaces(_)
CollapseSpaces(x) ==
    IF x = <<>> THEN <<>>
    ELSE IF IsSpace(Head(x)) THEN <<" ">> \o CollapseSpaces(DropSpaces(x))
    ELSE <<Head(x)>> \o CollapseSpaces(Tail(x))

\* [\wáéíóúñ ]: what the second substitution keeps
IsKept(c) == c \in {"a", "b", "A", "B", " "}

\* re.sub(r"[^\wáéíóúñ ]", "", s)
StripPunctuation(x) == SelectSeq(x, IsKept)

RECURSIVE DropTrailingSpaces(_)
DropTrailingSpaces(x) ==
    IF x # <<>> /\ IsSpace(x[Len(x)])
    THEN DropTrailingSpaces(SubSeq(x, 1, Len(x) - 1))
    ELSE x

\* str.strip()
Strip(x) == DropTrailingSpaces(DropSpaces(x))

\* normalize_text(s); v.isstr is isinstance(s, str)
normalize_text(v) ==
    IF ~v.isstr THEN <<>> ELSE Strip(StripPunctuation(CollapseSpaces(Lower(v.s))))

InitNormalize ==
    /\ nt_in \in {PyStr(x) : x \in StringsUpTo(NormChars, MaxNormLen)} \cup {NotAStr}
    /\ nt_once = <<>>
    /\ nt_twice = <<>>
    /\ nt_pc = "start"
    /\ RetryIdle
    /\ GroupIdle
    /\ LaterIdle

NormalizeOnce ==
    /\ nt_pc = "start"
    /\ nt_once' = normalize_text(nt_in)
    /\ nt_pc' = "once"
    /\ UNCHANGED <<nt_in, nt_twice, retryVars, groupVars, laterVars>>

NormalizeTwice ==
    /\ nt_pc = "once"
    /\ nt_twice' = normalize_text(PyStr(nt_once))
    /\ nt_pc' = "twice"
    /\ UNCHANGED <<nt_in, nt_once, retryVars, groupVars, laterVars>>

NextNormalize == NormalizeOnce \/ NormalizeTwice
SpecNormalize == InitNormalize /\ [][NextNormalize]_vars

\* C6: normalize_text is idempotent, also on strings where a punctuation
\* character stands between two spaces.
C6_NormalizeIdempotent == nt_pc = "twice" => nt_twice = nt_once

----------------------------------------------------------------------------
(* similarity and group_similar_events *)

MaxEvents == 3    \* longest event sequence handed to group_similar_events
MaxTs == 3        \* timestamps are 1..MaxTs

\* length of the common run of a[i..ahi-1] and b[j..bhi-1]
RECURSIVE RunLen(_, _, _, _, _, _)
RunLen(a, b, i, j, ahi, bhi) ==
    IF i < ahi /\ j < bhi /\ a[i] = b[j]
    THEN 1 + RunLen(a, b, i + 1, j + 1, ahi, bhi)
    ELSE 0

\* difflib's find_longest_match(alo, ahi, blo, bhi) without junk: the longest
\* block, of those the one starting earliest in a, of those the one
\* starting earliest in b
FindLongestMatch(a, b, alo, ahi, blo, bhi) ==
    LET cells == (alo..(ahi - 1)) \X (blo..(bhi - 1))
        len == [c \in cells |-> RunLen(a, b, c[1], c[2], ahi, bhi)]
        best == CHOOSE c \in cells :
                  \A d \in cells :
                    \/ len[c] > len[d]
                    \/ len[c] = len[d] /\ c[1] < d[1]
                    \/ len[c] = len[d] /\ c[1] = d[1] /\ c[2] <= d[2]
    IN  [i |-> best[1], j |-> best[2], k |-> len[best]]

\* the total size of difflib's get_matching_blocks()
RECURSIVE MatchTotal(_, _, _, _, _, _)
MatchTotal(a, b, alo, ahi, blo, bhi) ==
    IF alo >= ahi \/ blo >= bhi
    THEN 0
    ELSE LET m == FindLongestMatch(a, b, alo, ahi, blo, bhi)
         IN  IF m.k = 0
             THEN 0
             ELSE m.k + MatchTotal(a, b, alo, m.i, blo, m.j)
                      + MatchTotal(a, b, m.i + m.k, ahi, m.j + m.k, bhi)

\* SequenceMatcher(None, a, b).ratio() as the pair <<2*M, T>>
similarity(a, b) ==
    <<2 * MatchTotal(a, b, 1, Len(a) + 1, 1, Len(b) + 1), Len(a) + Len(b)>>

\* the raw texts of the events
GroupTexts ==
    {<<>>, <<"a", "a", "b">>, <<"b", "b">>, <<"a", "b", "b">>,
     <<"A", "b", "b", "!">>}
Absent == [isstr |-> FALSE, s |-> <<>>]
Events ==
    [text : {PyStr(x) : x \in GroupTexts} \cup {Absent},
     msg : {Absent, PyStr(<<"b", "b">>)},
     timestamp : 1..MaxTs]
Thresholds == {<<1, 2>>, <<19, 20>>}

\* evt.get("text", "") or evt.get("msg", "") or ""
EventText(evt) ==
    IF evt.text.isstr /\ evt.text.s # <<>> THEN evt.text.s
    ELSE IF evt.msg.isstr /\ evt.msg.s # <<>> THEN evt.msg.s
    ELSE <<>>

\* the ratios of all pairs of normalized texts, computed once
Norms == {normalize_text(PyStr(EventText(e))) : e \in Events}
RatioTable == [a \in Norms, b \in Norms |-> similarity(a, b)]

\* similarity(a, b) >= threshold; ratio() is 1.0 when both strings are
\* empty; thr is <<numerator, denominator>>
SimilarEnough(a, b, thr) ==
    LET r == RatioTable[a, b]
    IN  IF r[2] = 0 THEN thr[1] <= thr[2] ELSE r[1] * thr[2] >= thr[1] * r[2]

LastMatch(gs, norm, thr) ==
    LET hits == {i \in 1..Len(gs) : SimilarEnough(gs[i].norm, norm, thr)}
    IN  IF hits = {} THEN 0 ELSE CHOOSE i \in hits : \A j \in hits : j <= i
\* for g in groups: if similarity(g["norm"], norm) >= threshold: ... break
\* the index of the group the scan stops at, 0 when it matches none
FirstMatch(gs, norm, thr) ==
    LET hits == {i \in 1..Len(gs) : SimilarEnough(gs[i].norm, norm, thr)}
    IN  IF hits = {} THEN 0 ELSE CHOOSE i \in hits : \A j \in hits : i <= j

MergeWithoutCount(g, evt) ==
    [g EXCEPT
       !.timestamp_last = IF evt.timestamp > @ THEN evt.timestamp ELSE @,
       !.timestamp_first = IF evt.timestamp < @ THEN evt.timestamp ELSE @]
MergeLastOnly(g, evt) ==
    [g EXCEPT
       !.count = @ + 1,
       !.timestamp_last = IF evt.timestamp > @ THEN evt.timestamp ELSE @]
\* the body of the scan's if: count and the two timestamps
MergeEvent(g, evt) ==
    [g EXCEPT
       !.count = @ + 1,
       !.timestamp_last = IF evt.timestamp > @ THEN evt.timestamp ELSE @,
       !.timestamp_first = IF evt.timestamp < @ THEN evt.timestamp ELSE @]

NewGroup(text, norm, evt) ==
    [sample_text |-> text,
     norm |-> norm,
     count |-> 1,
     timestamp_first |-> evt.timestamp,
     timestamp_last |-> evt.timestamp]

\* g.pop("norm", None)
PopNorm(g) ==
    [sample_text |-> g.sample_text,
     count |-> g.count,
     timestamp_first |-> g.timestamp_first,
     timestamp_last |-> g.timestamp_last]

InitGroup ==
    /\ threshold \in Thresholds
    /\ groups = <<>>
    /\ seen = <<>>
    /\ processed = 0
    /\ last_evt = [text |-> <<>>, norm |-> <<>>, timestamp |-> 0, joined |-> 0]
    /\ g_pc = "loop"
    /\ returned = <<>>
    /\ RetryIdle
    /\ NormIdle
    /\ LaterIdle

\* one turn of the loop over events.  seen and last_evt are history
\* variables: what each group was created from and has merged, and where
\* the event went.
GroupStep ==
    /\ g_pc = "loop"
    /\ processed < MaxEvents
    /\ \E evt \in Events :
         LET text == EventText(evt)
             norm == normalize_text(PyStr(text))
             i == FirstMatch(groups, norm, threshold)
         IN  /\ IF i # 0
                THEN /\ groups' = [groups EXCEPT ![i] = MergeEvent(@, evt)]
                     /\ seen' = [seen EXCEPT ![i].ts = @ \cup {evt.timestamp},
                                             ![i].n = @ + 1]
                ELSE /\ groups' = Append(groups, NewGroup(text, norm, evt))
                     /\ seen' = Append(seen, [ts |-> {evt.timestamp}, n |-> 1,
                                              text |-> text, norm |-> norm])
             /\ last_evt' = [text |-> text, norm |-> norm,
                             timestamp |-> evt.timestamp,
                             joined |-> IF i # 0 THEN i ELSE 0 - Len(groups')]
    /\ processed' = processed + 1
    /\ UNCHANGED <<threshold, g_pc, returned, retryVars, normVars, laterVars>>

\* the end of the loop: the cleanup of norm and the return (also the early
\* return [] on an empty list)
GroupReturn ==
    /\ g_pc = "loop"
    /\ returned' = [i \in 1..Len(groups) |-> PopNorm(groups[i])]
    /\ g_pc' = "returned"
    /\ UNCHANGED <<threshold, groups, seen, processed, last_evt, retryVars, normVars, laterVars>>

NextGroup == GroupStep \/ GroupReturn
SpecGroup == InitGroup /\ [][NextGroup]_vars

RECURSIVE SumCounts(_)
SumCounts(gs) == IF gs = <<>> THEN 0 ELSE Head(gs).count + SumCounts(Tail(gs))

MinOfSet(S) == CHOOSE x \in S : \A y \in S : x <= y
MaxOfSet(S) == CHOOSE x \in S : \A y \in S : y <= x

\* C7: after each event processed by group_similar_events the counts of the
\* groups add up to the number of events processed, and so does the sum over
\* the returned groups: every event is counted in exactly one group.
C7_CountsSumToProcessed ==
    /\ SumCounts(groups) = processed
    /\ \A i \in 1..Len(groups) : groups[i].count = seen[i].n
    /\ g_pc = "returned" => SumCounts(returned) = processed

C7_Witness ==
    /\ g_pc = "returned"
    /\ processed = 3
    /\ Len(returned) = 2
    /\ returned[1].count = 2
    /\ returned[2].count = 1

\* C8: at every step each group has timestamp_first <= timestamp_last, the
\* first being the minimum and the last the maximum timestamp of the events
\* merged into the group so far, in whatever order they arrived.
C8_FirstLastAreMinMax ==
    \A i \in 1..Len(groups) :
      /\ groups[i].timestamp_first <= groups[i].timestamp_last
      /\ groups[i].timestamp_first = MinOfSet(seen[i].ts)
      /\ groups[i].timestamp_last = MaxOfSet(seen[i].ts)

C8_Witness ==
    /\ Len(groups) = 1
    /\ groups[1].count = 3
    /\ last_evt.joined = 1
    /\ last_evt.timestamp = 1
    /\ seen[1].ts = {1, 2, 3}
    /\ groups[1].timestamp_first = 1
    /\ groups[1].timestamp_last = 3

\* C9: group_similar_events is first-fit in creation order: an event joins
\* the earliest-created group whose representative (the normalized text of
\* the event that created it, never changed) is similar enough, even when a
\* later group is more similar; otherwise it creates a group, appended last,
\* whose sample_text is its raw text; the groups are returned in creation
\* order and without the norm key.
C9_FirstFitInCreationOrder ==
    /\ Len(seen) = Len(groups)
    /\ \A i \in 1..Len(groups) :
         /\ groups[i].norm = seen[i].norm
         /\ groups[i].sample_text = seen[i].text
    /\ processed >= 1 =>
         LET j == last_evt.joined
             fits(i) == SimilarEnough(groups[i].norm, last_evt.norm, threshold)
         IN  IF j > 0
             THEN /\ j <= Len(groups)
                  /\ fits(j)
                  /\ \A i \in 1..(j - 1) : ~fits(i)
             ELSE /\ 0 - j = Len(groups)
                  /\ \A i \in 1..(Len(groups) - 1) : ~fits(i)
                  /\ groups[0 - j].sample_text = last_evt.text
                  /\ groups[0 - j].norm = last_evt.norm
                  /\ groups[0 - j].count = 1
    /\ g_pc = "returned" =>
         /\ Len(returned) = Len(groups)
         /\ \A i \in 1..Len(returned) :
              /\ DOMAIN returned[i] =
                   {"sample_text", "count", "timestamp_first", "timestamp_last"}
              /\ returned[i].sample_text = seen[i].text
              /\ returned[i].count = groups[i].count

C9_Witness ==
    /\ threshold = <<1, 2>>
    /\ Len(groups) = 2
    /\ groups[1].norm = <<"a", "a", "b">>
    /\ groups[2].norm = <<"b", "b">>
    /\ last_evt.norm = <<"a", "b", "b">>
    /\ last_evt.joined = 1
    /\ LET r1 == RatioTable[groups[1].norm, last_evt.norm]
           r2 == RatioTable[groups[2].norm, last_evt.norm]
       IN  r2[1] * r1[2] > r1[1] * r2[2]

----------------------------------------------------------------------------
(* The call sites as a state machine *)

CallStart ==
    /\ pc = "enter"
    /\ attempt = 0
    /\ history = <<>>
    /\ sleeps = <<>>
    /\ ret = NoOutcome
    /\ result = NoResult

\* the program's call sites, each with with_retries' default parameters
InitRetry ==
    /\ site \in Sites
    /\ api_key \in (IF site = "server_analyze" THEN BOOLEAN ELSE {TRUE})
    /\ tg_enabled \in (IF site = "consumer_telegram" THEN BOOLEAN ELSE {TRUE})
    /\ params = DefaultParams(site)
    /\ CallStart
    /\ NormIdle
    /\ GroupIdle
    /\ LaterIdle

\* with_retries called with any parameters, by a caller whose request_fn
\* raises for every status but 200
InitWithRetries ==
    /\ site \in DirectSites
    /\ api_key = TRUE
    /\ tg_enabled = TRUE
    /\ params \in [max_attempts : 1..MaxAttemptsBound,
                   base_delay : 1..MaxBaseDelay,
                   max_delay : {SmallMaxDelay, DefaultParams(site).max_delay}]
    /\ CallStart
    /\ NormIdle
    /\ GroupIdle
    /\ LaterIdle

\* the code before the request: the guards that return without any request
Enter ==
    /\ pc = "enter"
    /\ IF site = "server_analyze" /\ ~api_key
       THEN /\ result' = Sentinel("Missing OPENAI_API_KEY")
            /\ pc' = "done"
       ELSE IF site = "consumer_telegram" /\ ~tg_enabled
       THEN /\ result' = Res("pair", FALSE, Missing, Str("Telegram disabled in settings"))
            /\ pc' = "done"
       ELSE /\ result' = result
            /\ pc' = "request"
    /\ UNCHANGED <<site, api_key, tg_enabled, params, attempt, history, sleeps, ret>>
    /\ UNCHANGED <<normVars, groupVars, laterVars>>

\* one turn of with_retries' loop: request_fn(), and on an exception the
\* decision to raise or to sleep
Attempt ==
    /\ pc = "request"
    /\ Variant(site) # "none"
    /\ \E o \in Outcomes(site) :
         /\ history' = Append(history, o)
         /\ IF ~RequestFnRaises(site, o)
            THEN /\ pc' = "returned"
                 /\ ret' = o
                 /\ UNCHANGED <<attempt, sleeps>>
            ELSE LET a == attempt + 1
                     status == ExcStatus(o)
                 IN  /\ attempt' = a
                     /\ IF ShouldRaise(a, params.max_attempts, IsRetriable(o))
                        THEN /\ pc' = "raised"
                             /\ ret' = o
                             /\ UNCHANGED sleeps
                        ELSE \E r \in 0..(JitterSteps - 1) :
                               LET delay == BackoffDelay(Variant(site), a, status,
                                                         params.base_delay, params.max_delay)
                               IN  /\ sleeps' = Append(sleeps,
                                        [after |-> Len(history) + 1,
                                         attempt |-> a,
                                         status |-> status,
                                         delay |-> delay,
                                         ms |-> SleepMs(Variant(site), delay, r)])
                                   /\ pc' = "request"
                                   /\ UNCHANGED ret
    /\ UNCHANGED <<site, api_key, tg_enabled, params, result>>
    /\ UNCHANGED <<normVars, groupVars, laterVars>>

\* openai_analyze_events: one client.post, no retry
AppPost ==
    /\ pc = "request"
    /\ site = "app_analyze"
    /\ \E o \in Outcomes(site) :
         /\ history' = Append(history, o)
         /\ ret' = o
         /\ pc' = IF o.kind \in {"timeout", "error"} THEN "raised" ELSE "returned"
    /\ UNCHANGED <<site, api_key, tg_enabled, params, attempt, sleeps, result>>
    /\ UNCHANGED <<normVars, groupVars, laterVars>>

\* the code after the request: the call site's handling of what it got
Finish ==
    /\ pc \in {"returned", "raised"}
    /\ result' = SiteResult(site, pc = "raised", ret)
    /\ pc' = "done"
    /\ UNCHANGED <<site, api_key, tg_enabled, params, attempt, history, sleeps, ret>>
    /\ UNCHANGED <<normVars, groupVars, laterVars>>

NextRetry == Enter \/ Attempt \/ AppPost \/ Finish
SpecRetry == InitRetry /\ [][NextRetry]_vars

NextWithRetries == Enter \/ Attempt \/ Finish
SpecWithRetries == InitWithRetries /\ [][NextWithRetries]_vars

----------------------------------------------------------------------------
(* Claims about the retrying call sites *)

StatusesOf(h) == [i \in 1..Len(h) |-> IF h[i].kind = "response" THEN h[i].status ELSE 0]
IsPrefix(p, q) == Len(p) <= Len(q) /\ \A i \in 1..Len(p) : p[i] = q[i]

FailedRetriably(o) ==
    o.kind = "timeout" \/ (o.kind = "response" /\ o.status \in {429, 500, 502, 503, 504})
Succeeded(o) == o.kind = "response" /\ o.status = 200
FailedFinally(o) == ~FailedRetriably(o) /\ ~Succeeded(o)

\* C1: openai_analyze (server.py) answered 503, 503, 200 makes exactly three
\* requests, sleeps exactly twice (once after each 503, never after the 200),
\* each sleep within 60%..140% of min(max_delay, base_delay*2^(attempt-1)),
\* and returns the score and text parsed from the 200 body.
C1_Backoff503Then200 ==
    (/\ site = "server_analyze"
     /\ Len(history) >= 1
     /\ IsPrefix(StatusesOf(history), <<503, 503, 200>>))
    =>
    /\ IF Len(history) < 3
       THEN pc = "request" /\ Len(sleeps) = Len(history)
       ELSE pc \in {"returned", "done"} /\ Len(sleeps) = 2
    /\ \A i \in 1..Len(sleeps) :
         LET d == MinOf(params.max_delay, params.base_delay * Pow2(i - 1))
         IN  /\ sleeps[i].after = i
             /\ sleeps[i].attempt = i
             /\ 600 * d <= sleeps[i].ms
             /\ sleeps[i].ms <= 1400 * d
    /\ pc = "done" =>
         LET b == history[3].body
         IN  /\ result.kind = "dict"
             /\ (/\ b.kind = "content"
                 /\ b.content = <<"obj">>
                 /\ b.score.t = "num" /\ b.score.n >= 0 /\ b.score.n <= 1000
                 /\ b.text.t = "str" /\ b.text.s # "")
                => (result.score = b.score /\ result.text = b.text)

C1_Witness ==
    /\ site = "server_analyze"
    /\ pc = "done"
    /\ StatusesOf(history) = <<503, 503, 200>>
    /\ Len(sleeps) = 2
    /\ result.score = Num(800)
    /\ result.text = Str("intrusion")

\* C2: at every call site that wraps its request in with_retries, a response
\* with status in {429,500,502,503,504} received while fewer than 3 attempts
\* have been made is followed by another attempt.
C2_RetriableStatusRetried ==
    \A i \in 1..Len(history) :
      (/\ site \in {"server_analyze", "consumer_llm", "consumer_telegram"}
       /\ history[i].kind = "response"
       /\ history[i].status \in {429, 500, 502, 503, 504}
       /\ i < 3)
      => (Len(history) > i \/ pc = "request")

\* C3: openai_analyze (server.py) answered 401 makes exactly one request,
\* no retry and no sleep, and ends in the sentinel result (score 0.0 and a
\* diagnostic text), never in a parsed model result.
C3_Status401FailsAtOnce ==
    (/\ site = "server_analyze"
     /\ Len(history) >= 1
     /\ history[1].kind = "response"
     /\ history[1].status = 401)
    =>
    /\ Len(history) = 1
    /\ sleeps = <<>>
    /\ attempt = 0
    /\ pc \in {"returned", "raised", "done"}
    /\ pc = "done" =>
         /\ result.kind = "dict"
         /\ result.score = Num(0)
         /\ result.text.t = "str"
         /\ result.text.s \notin {"", "intrusion", "No summary", "Parse error"}

C3_Witness ==
    /\ site = "server_analyze"
    /\ pc = "done"
    /\ StatusesOf(history) = <<401>>
    /\ result.score = Num(0)

\* C4: with_retries invokes request_fn at most max_attempts times; only a
\* retriable failure is followed by another invocation; when every
\* invocation failed retriably the last failure is propagated after exactly
\* max_attempts invocations and max_attempts-1 sleeps; a non-retriable
\* failure is propagated at once with no sleep after it; the first success
\* is returned with no further invocation.
C4_WithRetriesBounded ==
    LET n == Len(history)
    IN  /\ n <= params.max_attempts
        /\ \A i \in 1..(n - 1) : FailedRetriably(history[i])
        /\ pc = "request" => (n < params.max_attempts /\ Len(sleeps) = n)
        /\ n >= 1 =>
             /\ FailedRetriably(history[n]) =>
                  \/ pc = "request"
                  \/ /\ n = params.max_attempts
                     /\ Len(sleeps) = params.max_attempts - 1
                     /\ pc \in {"raised", "done"}
                     /\ ret = history[n]
                     /\ pc = "done" => result.kind = "raised"
             /\ FailedFinally(history[n]) =>
                  /\ pc \in {"raised", "done"}
                  /\ Len(sleeps) = n - 1
                  /\ ret = history[n]
                  /\ pc = "done" => result.kind = "raised"
             /\ Succeeded(history[n]) =>
                  /\ pc \in {"returned", "done"}
                  /\ Len(sleeps) = n - 1
                  /\ ret = history[n]
                  /\ pc = "done" => result.kind = "returned"

C4_Witness ==
    /\ site \in DirectSites
    /\ pc = "done"
    /\ params.max_attempts = 3
    /\ Len(history) = 3
    /\ \A i \in 1..3 : FailedRetriably(history[i])
    /\ Len(sleeps) = 2
    /\ result.kind = "raised"

\* C5: in both variants of with_retries the delay computed before jitter
\* never exceeds max_delay, and equals base_delay*2^(attempt-1) (times 2
\* for status 429) whenever that value is below max_delay.
C5_DelayCapped ==
    \A i \in 1..Len(sleeps) :
      LET ideal == params.base_delay * Pow2(sleeps[i].attempt - 1)
                   * (IF sleeps[i].status = 429 THEN 2 ELSE 1)
      IN  /\ sleeps[i].delay <= params.max_delay
          /\ ideal < params.max_delay => sleeps[i].delay = ideal

\* C10: openai_analyze and openai_analyze_events never raise: whatever the
\* external call does, they return a score that is a number in [0,1] and a
\* text that is neither absent nor empty.
C10_ScoreInRangeTextNonEmpty ==
    site \in {"server_analyze", "app_analyze"} =>
      /\ result.kind \in {"none", "dict"}
      /\ pc = "done" =>
           /\ result.kind = "dict"
           /\ result.score.t = "num"
           /\ result.score.n >= 0
           /\ result.score.n <= 1000
           /\ result.text.t \notin {"missing", "null"}
           /\ result.text # Str("")

C10_Witness ==
    /\ site = "app_analyze"
    /\ pc = "done"
    /\ ret.body.content = <<"txt", "obj">>
    /\ ret.body.score = Num(1500)
    /\ ret.body.text = Str("")
    /\ result.score = Num(1000)
    /\ result.text = Str("No summary")

\* C13: when the content is no valid JSON as a whole but holds a fragment
\* {"score": x, "text": t}, openai_analyze returns x clamped into [0,1] and
\* t, wherever the fragment sits and whatever surrounds it (other braces, a
\* second fragment); when the content holds no "{...}" at all it returns the
\* parse-error sentinel with score 0.0; it raises in neither case.
C13_EmbeddedFragmentRecovered ==
    (/\ site \in {"server_analyze", "app_analyze"}
     /\ pc = "done"
     /\ ret.kind = "response" /\ ret.status = 200
     /\ ret.body.kind = "content"
     /\ ~JsonLoads(ret.body.content, ret.body).ok)
    =>
    LET c == ret.body.content
        x == ret.body.score
        t == ret.body.text
        braces == \E i, j \in 1..Len(c) :
                    /\ Opens(c[i]) /\ Closes(c[j])
                    /\ (i < j \/ (i = j /\ c[i] = "obj"))
    IN  /\ result.kind = "dict"
        /\ (HasObj(c) /\ x.t = "num" /\ t.t = "str" /\ t.s # "")
           => /\ result.score = Num(IF x.n < 0 THEN 0 ELSE IF x.n > 1000 THEN 1000 ELSE x.n)
              /\ result.text = t
        /\ ~braces => result = Sentinel("Parse error")

\* C22: send_telegram_msg never raises: whatever the notification request
\* gives (the feature disabled, a timeout on every attempt, any HTTP status,
\* any exception) it returns a (success, reason) pair, success being true
\* only when the last response was ok (a status below 400), and it makes no
\* HTTP request at all when the feature is disabled.
C22_TelegramNeverFatal ==
    site = "consumer_telegram" =>
      /\ pc = "done" =>
           /\ result.kind = "pair"
           /\ result.ok \in BOOLEAN
           /\ result.text.t = "str" /\ result.text.s # ""
      /\ (pc = "done" /\ result.ok) =>
           /\ history # <<>>
           /\ history[Len(history)].kind = "response"
           /\ history[Len(history)].status < 400
      /\ (pc = "done" /\ history # <<>> /\ history[Len(history)].kind # "response") =>
           ~result.ok
      /\ ~tg_enabled => history = <<>>
      /\ pc \in {"enter", "request", "returned", "raised", "done"}
      /\ Len(history) <= DefaultMaxAttempts

C22_Witness ==
    /\ site = "consumer_telegram"
    /\ tg_enabled
    /\ pc = "done"
    /\ Len(history) = 3
    /\ \A i \in 1..3 : history[i].kind = "timeout"
    /\ Len(sleeps) = 2
    /\ result.kind = "pair"
    /\ ~result.ok

----------------------------------------------------------------------------
(* trigger_analysis: the adaptive parsing of what call_llm_analysis returned *)

JTrue == JV("true", 0, "")
JFalse == JV("false", 0, "")
JObj == JV("obj", 0, "")
EmptyList == JV("emptylist", 0, "")

\* x is None, for a value obtained with dict.get
IsNone(v) == v.t \in {"missing", "null"}
\* a or b
PyOr(a, b) == IF Truthy(a) THEN a ELSE b
\* isinstance(t, (dict, list))
IsDictOrList(v) == v.t \in {"obj", "list", "emptylist"}

\* the value under "analisis": an object with the keys the code reads, or a
\* value that is no object
Analisis(t, conclusion, resumen, anomalias, riesgos) ==
    [t |-> t, conclusion |-> conclusion, resumen_eventos |-> resumen,
     anomalias_detectadas |-> anomalias, riesgos_detectados |-> riesgos]
NoAnalisis == Analisis("missing", Missing, Missing, Missing, Missing)
AnalisisInputs ==
    {NoAnalisis,
     Analisis("str", Missing, Missing, Missing, Missing),
     Analisis("list", Missing, Missing, Missing, Missing),
     Analisis("null", Missing, Missing, Missing, Missing),
     Analisis("obj", Missing, Missing, Missing, Missing),
     Analisis("obj", Str("conclusion"), Missing, JList, Missing),
     Analisis("obj", Missing, Str("resumen"), EmptyList, JList),
     Analisis("obj", JObj, Missing, Missing, JTrue)}

\* the value under "conclusion": a non-empty object with the keys the code
\* reads, or a value that is no object (s is its text when it is a string)
Conclusion(t, s, comentario, text, descripcion, riesgos, actividad) ==
    [t |-> t, s |-> s, comentario |-> comentario, text |-> text,
     descripcion |-> descripcion, riesgos_detectados |-> riesgos,
     actividad_inusual |-> actividad]
PlainConclusion(t, s) == Conclusion(t, s, Missing, Missing, Missing, Missing, Missing)
ConclusionInputs ==
    {PlainConclusion("missing", ""),
     PlainConclusion("str", ""),
     PlainConclusion("str", "all quiet"),
     PlainConclusion("list", ""),
     Conclusion("obj", "", Str("comentario"), Missing, Missing, Missing, Missing),
     Conclusion("obj", "", Missing, Missing, Str("descripcion"), JTrue, Missing),
     Conclusion("obj", "", Missing, Missing, Missing, JFalse, JTrue)}

\* the conclusion as a value of the surrounding object
ConclusionValue(c) == IF c.t = "str" THEN Str(c.s) ELSE JV(c.t, 0, "")

\* json.loads' value: a JSON object with the keys the code reads, or a list
\* or scalar
Result(score, text, alerta, analisis, conclusion, comentario, summary) ==
    [top |-> "object", score |-> score, text |-> text, alerta |-> alerta,
     analisis |-> analisis, conclusion |-> conclusion,
     comentario |-> comentario, summary |-> summary]
NotAnObject == [top |-> "value"]
PlainResult(score, text) ==
    Result(score, text, Missing, NoAnalisis, PlainConclusion("missing", ""),
           Missing, Missing)

AdaptScores ==
    {Missing, Null, Num(0 - 500), Num(800), Num(1500), NaN, Str("0.8"), Str("high")}
AdaptTexts == {Missing, Str(""), Str("intrusion"), JList}
AlertaInputs == {Missing, JTrue, JFalse}
RootTexts ==
    {<<Missing, Missing>>, <<Str("comentario"), Missing>>, <<Str(""), Str("summary")>>}

\* what call_llm_analysis hands to trigger_analysis
AsResult(r) ==
    IF r.kind = "raw_value" THEN NotAnObject ELSE PlainResult(r.score, r.text)
LlmResults ==
    {AsResult(call_llm_analysis(raised, o)) : raised \in {FALSE}, o \in FullOutcomes}
    \cup {AsResult(call_llm_analysis(TRUE, Timeout))}
AdaptResults ==
    LlmResults
    \cup {Result(sc, tx, al, an, co, rt[1], rt[2]) :
            sc \in AdaptScores, tx \in AdaptTexts, al \in AlertaInputs,
            an \in AnalisisInputs, co \in ConclusionInputs, rt \in RootTexts}

Response(score, text) == [kind |-> "response", score |-> score, text |-> text]
Raises == [kind |-> "raise", score |-> Missing, text |-> Missing]

\* clean(t)
clean(t) ==
    IF IsDictOrList(t) THEN Str("<json>")
    ELSE IF ~Truthy(t) THEN Str("")
    ELSE IF t.t = "str" THEN t
    ELSE Str("<str>")

\* the score inferred from the "analisis" wrapper
AnalisisScore(r) ==
    LET anoms == PyOr(r.analisis.anomalias_detectadas, r.analisis.riesgos_detectados)
    IN  IF r.alerta.t = "true" THEN Num(900)
        ELSE IF Truthy(anoms) /\ anoms.t = "list" THEN Num(800)
        ELSE Num(0)

\* the score inferred from a "conclusion" object
ConclusionScore(c, score) ==
    IF c.riesgos_detectados.t = "true" THEN Num(800)
    ELSE IF c.actividad_inusual.t = "true" THEN Num(700)
    ELSE score

\* if conc:
ConclusionTruthy(c) == Truthy(ConclusionValue(c))

trigger_analysis(r) ==
    IF r.top # "object"
    THEN Raises
    ELSE
      LET wrapped == r.analisis.t # "missing"
          reads_res == wrapped /\ (~Truthy(r.text) \/ IsNone(r.score))
          text1 == IF wrapped /\ ~Truthy(r.text)
                   THEN PyOr(r.analisis.conclusion, r.analisis.resumen_eventos)
                   ELSE r.text
          score1 == IF wrapped /\ IsNone(r.score) THEN AnalisisScore(r) ELSE r.score
          conc == r.conclusion
          use_conc == ~Truthy(text1) /\ ConclusionTruthy(conc)
          text2 == IF ~use_conc THEN text1
                   ELSE IF conc.t = "obj"
                   THEN PyOr(conc.comentario,
                          PyOr(conc.text, PyOr(conc.descripcion, Str("<str>"))))
                   ELSE ConclusionValue(conc)
          score2 == IF use_conc /\ conc.t = "obj" /\ IsNone(score1)
                    THEN ConclusionScore(conc, score1)
                    ELSE score1
          text3 == IF Truthy(text2) THEN text2 ELSE PyOr(r.comentario, r.summary)
          text4 == IF Truthy(text3) THEN text3 ELSE Str("<json>")
          score3 == IF ~IsNone(score2) THEN score2
                    ELSE IF r.alerta.t = "true" THEN Num(900) ELSE Num(0)
          f == PyFloat(score3)
      IN  IF reads_res /\ r.analisis.t # "obj" THEN Raises
          ELSE IF ~f.ok THEN Raises
          ELSE Response(f.v, clean(text4))

InitAdapt ==
    /\ ta_in \in AdaptResults
    /\ ta_out = [kind |-> "none"]
    /\ ta_pc = "call"
    /\ EarlierIdle
    /\ SumIdle
    /\ PermIdle
    /\ PayIdle
    /\ StoreIdle

TriggerAnalysis ==
    /\ ta_pc = "call"
    /\ ta_out' = trigger_analysis(ta_in)
    /\ ta_pc' = "done"
    /\ UNCHANGED <<ta_in, earlierVars, sumVars, permVars, payVars, storeVars>>

NextAdapt == TriggerAnalysis
SpecAdapt == InitAdapt /\ [][NextAdapt]_vars

\* C11: trigger_analysis never fails: for every JSON value the model can
\* return (an object with or without score and text, an object whose
\* "analisis" or "conclusion" is a string, a list or an object, a score that
\* is no number, a top-level list or scalar) it produces a (score, text)
\* pair instead of raising.
C11_AdaptiveParsingNeverRaises ==
    ta_pc = "done" => ta_out.kind = "response"

\* C12: every score returned by call_llm_analysis followed by
\* trigger_analysis lies in [0,1], also when the model's JSON carries a
\* "score" key below 0 or above 1.
C12_AdaptiveScoreInRange ==
    (ta_pc = "done" /\ ta_out.kind = "response")
    => (ta_out.score.t = "num" /\ ta_out.score.n >= 0 /\ ta_out.score.n <= 1000)

----------------------------------------------------------------------------
(* summarize_collection, in server.py and in app/main.py.  A day is a     *)
(* number, a datetime is its day, hour, minute and the text of its UTC     *)
(* offset ("" when it is naive); seconds and microseconds are zero in      *)
(* every record modelled.  An ISO string is the record of its parts.       *)

MaxRecords == 4  \* most records the collection holds
MaxLimit == 2    \* largest limit_buckets

BucketHours == 3
SamplesCap == 3
\* the offset of the strings stored with a non-zero offset, "+05:00"
OffsetHours == 5

DateTime(day, hour, minute, tz) ==
    [day |-> day, hour |-> hour, minute |-> minute, tz |-> tz]
NoDateTime == [ok |-> FALSE, d |-> DateTime(0, 0, 0, "")]
Resolved(d) == [ok |-> TRUE, d |-> d]

\* the value stored under "timestamp": a native datetime (naive, as the
\* driver hands it out), an ISO string ending in "Z", in "+05:00" or in no
\* offset, a string that is no date, a number, or nothing
Stored(rep, day, hour, minute, tz) ==
    [rep |-> rep, day |-> day, hour |-> hour, minute |-> minute, tz |-> tz]
NoTimestamp == Stored("missing", 0, 0, 0, "")
Garbage == Stored("garbage", 0, 0, 0, "")
NumberTs == Stored("number", 0, 0, 0, "")

\* the UTC instants the records are about: <<day, hour, minute>>
Instants == {<<1, 1, 30>>, <<1, 2, 0>>, <<1, 23, 0>>, <<2, 4, 0>>}
Reps == {"native", "z", "offset", "naive"}

\* the wall clock k hours east of UTC
ShiftHours(day, hour, k) ==
    LET h == hour + k
    IN  IF h >= 24 THEN <<day + 1, h - 24>>
        ELSE IF h < 0 THEN <<day - 1, h + 24>>
        ELSE <<day, h>>

\* the instant i stored in the representation rep
StoredAs(i, rep) ==
    CASE rep = "native" -> Stored("native", i[1], i[2], i[3], "")
      [] rep = "z" -> Stored("z", i[1], i[2], i[3], "Z")
      [] rep = "offset" ->
           LET l == ShiftHours(i[1], i[2], OffsetHours)
           IN  Stored("offset", l[1], l[2], i[3], "+05:00")
      [] OTHER -> Stored("naive", i[1], i[2], i[3], "")

StoredTimestamps ==
    {StoredAs(i, rep) : i \in Instants, rep \in Reps}
    \cup {NoTimestamp, Garbage, NumberTs}

\* the hours of a datetime's UTC offset
OffsetOf(tz) == IF tz = "+05:00" THEN OffsetHours ELSE 0

\* value.replace(tzinfo=dt.timezone.utc)
ReplaceUtc(d) == [d EXCEPT !.tz = "+00:00"]
\* value.astimezone(dt.timezone.utc)
AsTimezoneUtc(d) ==
    LET u == ShiftHours(d.day, d.hour, 0 - OffsetOf(d.tz))
    IN  DateTime(u[1], u[2], d.minute, "+00:00")

\* dt.datetime.fromisoformat(text.replace("Z", "+00:00"))
FromIsoFormat(v) ==
    IF v.rep \in {"garbage", "number", "missing"}
    THEN NoDateTime
    ELSE Resolved(DateTime(v.day, v.hour, v.minute,
                           IF v.tz = "Z" THEN "+00:00" ELSE v.tz))

to_datetimeEpochOnError(value) ==
    IF value.rep = "garbage" THEN Resolved(DateTime(0, 0, 0, "+00:00"))
    ELSE IF value.rep \in Reps
    THEN Resolved(AsTimezoneUtc(DateTime(value.day, value.hour, value.minute,
                                         IF value.tz = "+05:00" THEN value.tz ELSE "+00:00")))
    ELSE NoDateTime
\* server.py to_datetime
to_datetime(value) ==
    IF value.rep = "native"
    THEN Resolved(IF value.tz = "" THEN ReplaceUtc(DateTime(value.day, value.hour, value.minute, ""))
                  ELSE AsTimezoneUtc(DateTime(value.day, value.hour, value.minute, value.tz)))
    ELSE IF value.rep \in {"z", "offset", "naive", "garbage"}
    THEN LET parsed == FromIsoFormat(value)
         IN  IF ~parsed.ok THEN NoDateTime
             ELSE IF parsed.d.tz = "" THEN Resolved(ReplaceUtc(parsed.d))
             ELSE Resolved(AsTimezoneUtc(parsed.d))
    ELSE NoDateTime

\* app/main.py: "if not ts: continue", then fromisoformat(str(ts)...), with
\* no conversion to UTC
AppParse(ts) ==
    IF ts.rep = "missing" THEN NoDateTime ELSE FromIsoFormat(ts)

Resolve(impl, ts) == IF impl = "server" THEN to_datetime(ts) ELSE AppParse(ts)

\* d.isoformat(), and d.date().isoformat() as the date with no time
IsoFormat(d) == [date |-> d.day, hour |-> d.hour, minute |-> d.minute, suffix |-> d.tz]
DateIsoFormat(d) == [date |-> d.day, hour |-> 0, minute |-> 0, suffix |-> ""]
\* start.isoformat() + "Z"
AppendZ(k) ==
    [k EXCEPT !.suffix = CASE k.suffix = "" -> "Z"
                           [] k.suffix = "+00:00" -> "+00:00Z"
                           [] OTHER -> "+05:00Z"]

\* d.replace(minute=0, second=0, microsecond=0), then hour = (d.hour // 3) * 3
BucketStart(d) == [d EXCEPT !.minute = 0, !.hour = (d.hour \div BucketHours) * BucketHours]

BucketKey(impl, mode, d) ==
    IF mode = "3h"
    THEN IF impl = "server" THEN IsoFormat(BucketStart(d))
         ELSE AppendZ(IsoFormat(BucketStart(d)))
    ELSE DateIsoFormat(d)

\* the order of the suffixes as Python compares strings: "+" < "5" < "Z"
SuffixRank(x) ==
    CASE x = "" -> 0
      [] x = "+00:00" -> 1
      [] x = "+00:00Z" -> 2
      [] x = "+05:00Z" -> 3
      [] OTHER -> 4

\* a < b on the key strings
KeyLess(a, b) ==
    \/ a.date < b.date
    \/ a.date = b.date /\ a.hour < b.hour
    \/ a.date = b.date /\ a.hour = b.hour /\ a.minute < b.minute
    \/ /\ a.date = b.date /\ a.hour = b.hour /\ a.minute = b.minute
       /\ SuffixRank(a.suffix) < SuffixRank(b.suffix)

\* a record of the collection, with the keys summarize_collection reads
Event(timestamp, score, value, text, texto, msg) ==
    [timestamp |-> timestamp, score |-> score, value |-> value, valor |-> Missing,
     promedio |-> Missing, text |-> text, texto |-> texto, description |-> Missing,
     msg |-> msg]

ScoreFields == {<<Missing, Missing>>, <<Num(500), Missing>>, <<Str("high"), Num(200)>>}
TextFields ==
    {<<Missing, Missing, Missing>>,
     <<Str("A"), Str("B"), Missing>>,
     <<Str(""), Missing, Str("B")>>}

\* the records of a collection: with every timestamp and nothing else, or
\* with scores and texts at one instant
EventsOf(inputs) ==
    IF inputs = "timestamps"
    THEN {Event(ts, Missing, Missing, Missing, Missing, Missing) : ts \in StoredTimestamps}
    ELSE {Event(ts, sf[1], sf[2], tf[1], tf[2], tf[3]) :
            ts \in {StoredAs(<<1, 1, 30>>, "z")}, sf \in ScoreFields, tf \in TextFields}
         \cup {Event(Garbage, Num(500), Missing, Str("A"), Missing, Missing)}

\* extract_score: the first of score, value, valor, promedio that is a number
extract_score(ev) ==
    LET IsNumber(v) == v.t \in {"num", "nan", "posinf", "neginf"}
    IN  CASE IsNumber(ev.score) -> [found |-> TRUE, v |-> ev.score.n]
          [] IsNumber(ev.value) -> [found |-> TRUE, v |-> ev.value.n]
          [] IsNumber(ev.valor) -> [found |-> TRUE, v |-> ev.valor.n]
          [] IsNumber(ev.promedio) -> [found |-> TRUE, v |-> ev.promedio.n]
          [] OTHER -> [found |-> FALSE, v |-> 0]

MsgFirst(ev) == PyOr(ev.msg, PyOr(ev.description, PyOr(ev.texto, ev.text)))
\* ev.get("text") or ev.get("texto") or ev.get("description") or ev.get("msg")
FirstText(ev) == PyOr(ev.text, PyOr(ev.texto, PyOr(ev.description, ev.msg)))

\* str(txt)
StrOf(v) == IF v.t = "str" THEN v.s ELSE "<str>"

Bucket(count, scores, texts) == [count |-> count, scores |-> scores, texts |-> texts]
\* setdefault's {"count": 0, "scores": [], "texts": []}
NewBucket == Bucket(0, <<>>, <<>>)

\* b with v under key k
Put(b, k, v) == [x \in (DOMAIN b) \cup {k} |-> IF x = k THEN v ELSE b[x]]

\* the body of "for ev in raw"
ProcessRecord(impl, mode, b, ev) ==
    LET r == Resolve(impl, ev.timestamp)
    IN  IF ~r.ok THEN b
        ELSE
          LET key == BucketKey(impl, mode, r.d)
              old == IF key \in DOMAIN b THEN b[key] ELSE NewBucket
              sc == extract_score(ev)
              txt == FirstText(ev)
          IN  Put(b, key,
                  Bucket(old.count + 1,
                         IF sc.found THEN Append(old.scores, sc.v) ELSE old.scores,
                         IF Len(old.texts) < SamplesCap /\ Truthy(txt)
                         THEN Append(old.texts, StrOf(txt))
                         ELSE old.texts))

RECURSIVE SumSeq(_)
SumSeq(q) == IF q = <<>> THEN 0 ELSE Head(q) + SumSeq(Tail(q))

RECURSIVE Join(_)
\* " | ".join(texts)
Join(q) ==
    IF Len(q) <= 1 THEN q ELSE <<Head(q), " | ">> \o Join(Tail(q))

\* the entry of a bucket; the average is kept as sum and length
Entry(mode, k, data) ==
    [key |-> k,
     text |-> IF data.texts # <<>> THEN Join(data.texts) ELSE <<"No samples">>,
     score |-> IF data.scores # <<>>
               THEN [avg |-> TRUE, sum |-> SumSeq(data.scores), len |-> Len(data.scores)]
               ELSE [avg |-> FALSE, sum |-> 0, len |-> 0],
     hash |-> data.count,
     tipo |-> IF mode = "3h" THEN "3h" ELSE "dia"]

RECURSIVE SortDescending(_)
\* items.sort(key=..., reverse=True), on keys that are pairwise different
SortDescending(S) ==
    IF S = {} THEN <<>>
    ELSE LET m == CHOOSE x \in S : \A y \in S : y = x \/ KeyLess(y, x)
         IN  <<m>> \o SortDescending(S \ {m})

\* the items built from the buckets, sorted and cut: items[:limit_buckets]
Summary(mode, b, limit) ==
    LET keys == SortDescending(DOMAIN b)
        items == [i \in 1..Len(keys) |-> Entry(mode, keys[i], b[keys[i]])]
    IN  SubSeq(items, 1, MinOf(limit, Len(items)))

\* the timestamp denotes an instant
Denotes(ts) == ts.rep \in Reps
\* the instant it denotes, in minutes, a time without offset being UTC
InstantOf(ts) ==
    ((ts.day * 24 + ts.hour) - (IF ts.rep = "offset" THEN OffsetHours ELSE 0)) * 60
    + ts.minute
\* the first of text, texto, description, msg that is a non-empty string
SampleOf(ev) ==
    LET fields == <<ev.text, ev.texto, ev.description, ev.msg>>
        full == {i \in 1..4 : fields[i].t = "str" /\ fields[i].s # ""}
    IN  IF full = {} THEN <<>>
        ELSE <<fields[CHOOSE i \in full : \A j \in full : i <= j].s>>

\* what is known of the records put under a key: the instants they denote,
\* the day and hour their timestamps resolved to, their texts in order
Assigned(instants, slots, texts) ==
    [instants |-> instants, slots |-> slots, texts |-> texts]
Assign(impl, mode, a, ev) ==
    LET r == Resolve(impl, ev.timestamp)
    IN  IF ~r.ok THEN a
        ELSE
          LET key == BucketKey(impl, mode, r.d)
              old == IF key \in DOMAIN a THEN a[key] ELSE Assigned({}, {}, <<>>)
          IN  Put(a, key,
                  Assigned(old.instants \cup {InstantOf(ev.timestamp)},
                           old.slots \cup {<<r.d.day, r.d.hour>>},
                           old.texts \o SampleOf(ev)))

InitSummary ==
    /\ sm_impl \in {"server", "app"}
    /\ sm_mode \in {"3h", "day"}
    /\ sm_inputs \in {"timestamps", "samples"}
    /\ sm_limit = 0
    /\ buckets = <<>>
    /\ sm_assigned = <<>>
    /\ sm_n = 0
    /\ sm_resolved = 0
    /\ sm_pc = "find"
    /\ sm_items = <<>>
    /\ EarlierIdle
    /\ AdaptIdle
    /\ PermIdle
    /\ PayIdle
    /\ StoreIdle

\* target_coll.find(...).limit(5000) hands out the records
Find ==
    /\ sm_pc = "find"
    /\ sm_pc' = "loop"
    /\ UNCHANGED <<sm_impl, sm_mode, sm_inputs, sm_limit, buckets, sm_assigned, sm_n,
                   sm_resolved, sm_items>>
    /\ UNCHANGED <<earlierVars, adaptVars, permVars, payVars, storeVars>>

\* target_coll.find raises: return []
FindFails ==
    /\ sm_pc = "find"
    /\ sm_items' = <<>>
    /\ sm_pc' = "done"
    /\ UNCHANGED <<sm_impl, sm_mode, sm_inputs, sm_limit, buckets, sm_assigned, sm_n,
                   sm_resolved>>
    /\ UNCHANGED <<earlierVars, adaptVars, permVars, payVars, storeVars>>

\* one turn of "for ev in raw"
SummarizeStep ==
    /\ sm_pc = "loop"
    /\ sm_n < MaxRecords
    /\ \E ev \in EventsOf(sm_inputs) :
         /\ buckets' = ProcessRecord(sm_impl, sm_mode, buckets, ev)
         /\ sm_assigned' = Assign(sm_impl, sm_mode, sm_assigned, ev)
         /\ sm_resolved' = sm_resolved + (IF Denotes(ev.timestamp) THEN 1 ELSE 0)
    /\ sm_n' = sm_n + 1
    /\ UNCHANGED <<sm_impl, sm_mode, sm_inputs, sm_limit, sm_pc, sm_items>>
    /\ UNCHANGED <<earlierVars, adaptVars, permVars, payVars, storeVars>>

\* the code after the loop: the items, sorted and cut
SummarizeReturn ==
    /\ sm_pc = "loop"
    /\ \E limit \in 1..MaxLimit :
         /\ sm_limit' = limit
         /\ sm_items' = Summary(sm_mode, buckets, limit)
    /\ sm_pc' = "done"
    /\ UNCHANGED <<sm_impl, sm_mode, sm_inputs, buckets, sm_assigned, sm_n, sm_resolved>>
    /\ UNCHANGED <<earlierVars, adaptVars, permVars, payVars, storeVars>>

NextSummary == Find \/ FindFails \/ SummarizeStep \/ SummarizeReturn
SpecSummary == InitSummary /\ [][NextSummary]_vars

Keys == DOMAIN buckets
RECURSIVE SumOver(_, _)
SumOver(f, S) ==
    IF S = {} THEN 0
    ELSE LET k == CHOOSE x \in S : TRUE IN f[k].count + SumOver(f, S \ {k})

\* C14: in mode "3h" a record whose resolved timestamp has hour h goes to the
\* bucket whose key is the same date at hour 3*floor(h/3), minute zero, so
\* every key's hour is a multiple of 3 up to 21 and the records of one day
\* and one three-hour span share one bucket (hours 01, 02, 04, 05, 23 of one
\* day: three buckets, at hours 0, 3 and 21).
C14_ThreeHourBuckets ==
    sm_mode = "3h" =>
      /\ \A k \in Keys :
           /\ k.hour \in {0, 3, 6, 9, 12, 15, 18, 21}
           /\ k.minute = 0
           /\ \A sl \in sm_assigned[k].slots :
                k.date = sl[1] /\ k.hour = 3 * (sl[2] \div 3)
      /\ \A k1, k2 \in Keys : (k1.date = k2.date /\ k1.hour = k2.hour) => k1 = k2

\* C15: two records whose timestamps denote the same UTC instant, however
\* they are stored (native, "Z" string, string with an offset, naive
\* string), go to the same bucket key, in both modes and in both
\* implementations.
C15_SameInstantSameBucket ==
    \A k1, k2 \in Keys :
      k1 # k2 => sm_assigned[k1].instants \cap sm_assigned[k2].instants = {}

\* C16: after each record the counts of the buckets add up to the number of
\* records consumed whose timestamp resolved; a record without a timestamp,
\* or with one that cannot be parsed, changes no bucket and does not end the
\* pass.
C16_CountsMatchResolved ==
    /\ [](sm_pc \in {"loop", "done"} => SumOver(buckets, Keys) = sm_resolved)
    /\ [][(sm_n' = sm_n + 1 /\ sm_resolved' = sm_resolved)
          => (buckets' = buckets /\ sm_pc' = "loop")]_vars

C16_Witness ==
    /\ sm_pc = "done"
    /\ sm_n = 4
    /\ sm_resolved = 2
    /\ Cardinality(Keys) = 2
    /\ Len(sm_items) = 2

Returned == {sm_items[i].key : i \in 1..Len(sm_items)}

\* C17: the sequence returned has at most limit_buckets entries, with keys
\* pairwise different and strictly descending; it holds the
\* min(limit_buckets, number of buckets) buckets with the greatest keys,
\* which are the chronologically most recent ones.
C17_MostRecentBuckets ==
    (sm_pc = "done" /\ sm_limit > 0) =>
      /\ Len(sm_items) = MinOf(sm_limit, Cardinality(Keys))
      /\ Returned \subseteq Keys
      /\ \A i \in 1..(Len(sm_items) - 1) : KeyLess(sm_items[i + 1].key, sm_items[i].key)
      /\ \A k \in Keys \ Returned : \A r \in Returned : KeyLess(k, r)
      /\ \A k \in Keys \ Returned : \A r \in Returned :
           \A i \in sm_assigned[k].instants : \A j \in sm_assigned[r].instants : i < j

FirstN(q, n) == SubSeq(q, 1, MinOf(n, Len(q)))

\* C18: a bucket holds at most 3 sample texts: the texts (first non-empty of
\* text, texto, description, msg) of the first records put in it that have
\* one, in the order met; a record arriving at a bucket with 3 samples still
\* adds to the count, may add a score, and leaves the samples as they are.
C18_FirstThreeSamples ==
    /\ [](\A k \in Keys :
            /\ Len(buckets[k].texts) <= 3
            /\ buckets[k].texts = FirstN(sm_assigned[k].texts, 3))
    /\ [][\A k \in Keys :
            (Len(buckets[k].texts) = 3 /\ buckets'[k] # buckets[k])
            => /\ buckets'[k].count = buckets[k].count + 1
               /\ buckets'[k].texts = buckets[k].texts
               /\ \/ buckets'[k].scores = buckets[k].scores
                  \/ /\ Len(buckets'[k].scores) = Len(buckets[k].scores) + 1
                     /\ FirstN(buckets'[k].scores, Len(buckets[k].scores))
                          = buckets[k].scores]_vars

C18_Witness ==
    \E k \in Keys :
      /\ buckets[k].count = 4
      /\ buckets[k].texts = <<"A", "B", "A">>
      /\ sm_assigned[k].texts = <<"A", "B", "A", "B">>
      /\ Len(buckets[k].scores) = 1

----------------------------------------------------------------------------
(* summarize_collection (server.py) over a whole list of records, with the *)
(* buckets kept in the order the dict got its keys                         *)

MaxRaw == 3  \* most records in raw

\* the records of raw: two timestamps of one bucket with a score under
\* "score" or under "value", a later timestamp with a score or none, and one
\* timestamp that does not parse
PermEvents ==
    {Event(ts, sf[1], sf[2], sf[3], Missing, Missing) :
       ts \in {StoredAs(<<1, 1, 30>>, "z"), StoredAs(<<1, 2, 0>>, "offset")},
       sf \in {<<Num(500), Missing, Str("A")>>, <<Str("high"), Num(200), Str("B")>>}}
    \cup {Event(StoredAs(<<2, 4, 0>>, "native"), sc, Missing, Missing, Missing, Missing) :
            sc \in {Missing, Num(500)}}
    \cup {Event(Garbage, Num(500), Missing, Str("A"), Missing, Missing)}

RECURSIVE FoldRecords(_, _, _)
\* buckets after "for ev in raw", started from the buckets b
FoldRecords(mode, b, raw) ==
    IF raw = <<>> THEN b
    ELSE FoldRecords(mode, ProcessRecord("server", mode, b, Head(raw)), Tail(raw))

RECURSIVE KeysInOrder(_, _, _)
\* the keys of the dict in the order setdefault inserted them
KeysInOrder(mode, order, raw) ==
    IF raw = <<>> THEN order
    ELSE LET r == to_datetime(Head(raw).timestamp)
             key == BucketKey("server", mode, r.d)
         IN  KeysInOrder(mode,
                         IF r.ok /\ \A i \in 1..Len(order) : order[i] # key
                         THEN Append(order, key) ELSE order,
                         Tail(raw))

KeepOrder(order) == order
\* items.sort(key=lambda x: x.get(sort_key, ""), reverse=True)
SortItems(order) == SortDescending({order[i] : i \in 1..Len(order)})

summarize_collection(mode, limit_buckets, raw) ==
    LET b == FoldRecords(mode, <<>>, raw)
        keys == SortItems(KeysInOrder(mode, <<>>, raw))
        items == [i \in 1..Len(keys) |-> Entry(mode, keys[i], b[keys[i]])]
    IN  SubSeq(items, 1, MinOf(limit_buckets, Len(items)))

InitPermute ==
    /\ pm_mode \in {"3h", "day"}
    /\ pm_limit = 0
    /\ pm_raw = <<>>
    /\ pm_items = <<>>
    /\ pm_pc = "find"
    /\ EarlierIdle
    /\ AdaptIdle
    /\ SumIdle
    /\ PayIdle
    /\ StoreIdle

\* the cursor hands out one more record
ReadRecord ==
    /\ pm_pc = "find"
    /\ Len(pm_raw) < MaxRaw
    /\ \E ev \in PermEvents : pm_raw' = Append(pm_raw, ev)
    /\ UNCHANGED <<pm_mode, pm_limit, pm_items, pm_pc>>
    /\ UNCHANGED <<earlierVars, adaptVars, sumVars, payVars, storeVars>>

\* the loop, the sort and the return, over the list read
Summarize ==
    /\ pm_pc = "find"
    /\ \E limit \in 1..MaxLimit :
         /\ pm_limit' = limit
         /\ pm_items' = summarize_collection(pm_mode, limit, pm_raw)
    /\ pm_pc' = "done"
    /\ UNCHANGED <<pm_mode, pm_raw>>
    /\ UNCHANGED <<earlierVars, adaptVars, sumVars, payVars, storeVars>>

NextPermute == ReadRecord \/ Summarize
SpecPermute == InitPermute /\ [][NextPermute]_vars

\* how often x occurs in the sequence q
Occurrences(q, x) == Cardinality({i \in 1..Len(q) : q[i] = x})
SameCollection(q1, q2) ==
    /\ Len(q1) = Len(q2)
    /\ \A i \in 1..Len(q1) : Occurrences(q1, q1[i]) = Occurrences(q2, q1[i])
Permuted(raw, f) == [i \in 1..Len(raw) |-> raw[f[i]]]

\* C19: for a fixed mode and cap, summarize_collection over any permutation
\* of the same records returns the same bucket keys in the same order, with
\* the same count and the same collection of scores per bucket, a bucket
\* without scores showing the placeholder and never zero; only the sample
\* texts may depend on the order.
C19_OrderIndependent ==
    pm_pc = "done" =>
      LET b == FoldRecords(pm_mode, <<>>, pm_raw)
      IN  \A f \in Permutations(1..Len(pm_raw)) :
            LET raw == Permuted(pm_raw, f)
                items == summarize_collection(pm_mode, pm_limit, raw)
                c == FoldRecords(pm_mode, <<>>, raw)
            IN  /\ Len(items) = Len(pm_items)
                /\ \A i \in 1..Len(items) :
                     /\ items[i].key = pm_items[i].key
                     /\ items[i].hash = pm_items[i].hash
                     /\ items[i].score.avg = pm_items[i].score.avg
                     /\ SameCollection(c[items[i].key].scores, b[items[i].key].scores)
                     /\ b[items[i].key].scores = <<>> <=> ~pm_items[i].score.avg

C19_Witness ==
    /\ pm_pc = "done"
    /\ pm_mode = "3h"
    /\ pm_limit = 2
    /\ Len(pm_raw) = 3
    /\ Len(pm_items) = 2
    /\ KeyLess(BucketKey("server", "3h", to_datetime(pm_raw[1].timestamp).d),
               BucketKey("server", "3h", to_datetime(pm_raw[3].timestamp).d))
    /\ pm_items[2].hash = 2
    /\ pm_items[2].score = [avg |-> TRUE, sum |-> 700, len |-> 2]
    /\ ~pm_items[1].score.avg

----------------------------------------------------------------------------
(* call_llm_analysis: the cap on the events and on their strings *)

MiniMaxEvents == 200
DefaultMaxEvents == 50
MaxFieldLen == 150

\* model names, as strings of one-character strings
NameMini == <<"4", "-", "m", "i", "n", "i">>
NameUpper == <<"4", "-", "M", "I", "N", "I">>
NameMixed == <<"g", "e", "M", "i", "n", "i">>
NameBroken == <<"m", "i", "n", "-", "i">>
NamePlain == <<"4", ".", "1">>
ModelNames == {NameMini, NameUpper, NameMixed, NameBroken, NamePlain}

\* the model argument: None, or a string that may be empty
NoModel == [given |-> FALSE, name |-> <<>>]
Model(name) == [given |-> TRUE, name |-> name]
ModelArguments == {NoModel, Model(<<>>)} \cup {Model(n) : n \in ModelNames}

\* str.lower() on the letters of the names
LowerLetter(c) ==
    CASE c = "M" -> "m"
      [] c = "I" -> "i"
      [] c = "N" -> "n"
      [] OTHER -> c
LowerName(x) == [i \in 1..Len(x) |-> LowerLetter(x[i])]

\* sub in x
Contains(x, sub) ==
    \E i \in 1..(Len(x) - Len(sub) + 1) : SubSeq(x, i, i + Len(sub) - 1) = sub

\* model or OPENAI_MODEL
chosen_model(model, configured) ==
    IF model.given /\ model.name # <<>> THEN model.name ELSE configured

MAX_EVENTSNoLower(chosen) ==
    IF Contains(chosen, <<"m", "i", "n", "i">>) THEN MiniMaxEvents ELSE DefaultMaxEvents
\* 200 if "mini" in chosen_model.lower() else 50
MAX_EVENTS(chosen) ==
    IF Contains(LowerName(chosen), <<"m", "i", "n", "i">>)
    THEN MiniMaxEvents ELSE DefaultMaxEvents

\* the values of an event's fields: a string, a number, a list of n items
FieldStr(x) == [t |-> "str", n |-> 0, s |-> x]
FieldNum(k) == [t |-> "num", n |-> k, s |-> <<>>]
FieldList(k) == [t |-> "list", n |-> k, s |-> <<>>]

\* a string of n characters, "a" up to the cap and "b" beyond it
StringOfLen(n) == [i \in 1..n |-> IF i <= MaxFieldLen THEN "a" ELSE "b"]

\* the i-th event of a list: its position, two strings, and a list of tags
\* longer than the cap
EventAt(i, len1, len2) ==
    [id |-> FieldNum(i),
     text |-> FieldStr(StringOfLen(len1)),
     source |-> FieldStr(StringOfLen(len2)),
     tags |-> FieldList(MaxFieldLen + 1)]
FieldNames == {"id", "text", "source", "tags"}

ListLengths ==
    {0, 1} \cup {cap + k : cap \in {DefaultMaxEvents, MiniMaxEvents}, k \in {0 - 1, 0, 1}}
StringLengths == {0, MaxFieldLen - 1, MaxFieldLen, MaxFieldLen + 1, MaxFieldLen + 4}
EventLists ==
    {[i \in 1..n |-> EventAt(i, len1, len2)] :
       n \in ListLengths, len1 \in StringLengths, len2 \in {1, MaxFieldLen + 1}}

\* v[:150] + "..." if isinstance(v, str) and len(v) > 150 else v
Truncate(v) ==
    IF v.t = "str" /\ Len(v.s) > MaxFieldLen
    THEN FieldStr(SubSeq(v.s, 1, MaxFieldLen) \o <<".", ".", ".">>)
    ELSE v

\* events_list[:MAX_EVENTS] when it is longer, then the clean copy of each
optimized_events(events_list, max_events) ==
    LET cut == IF Len(events_list) > max_events
               THEN SubSeq(events_list, 1, max_events) ELSE events_list
    IN  [i \in 1..Len(cut) |-> [k \in FieldNames |-> Truncate(cut[i][k])]]

InitPayload ==
    /\ pl_model \in ModelArguments
    /\ pl_configured \in {<<>>, NamePlain, NameMini}
    /\ pl_events \in EventLists
    /\ pl_sent = <<>>
    /\ pl_pc = "call"
    /\ EarlierIdle
    /\ AdaptIdle
    /\ SumIdle
    /\ PermIdle
    /\ StoreIdle

\* call_llm_analysis up to the payload
BuildPayload ==
    /\ pl_pc = "call"
    /\ pl_sent' = optimized_events(pl_events, MAX_EVENTS(chosen_model(pl_model, pl_configured)))
    /\ pl_pc' = "payload"
    /\ UNCHANGED <<pl_model, pl_configured, pl_events>>
    /\ UNCHANGED <<earlierVars, adaptVars, sumVars, permVars, storeVars>>

NextPayload == BuildPayload
SpecPayload == InitPayload /\ [][NextPayload]_vars

\* the name holds "mini" in any mix of upper and lower case
HasMini(x) ==
    \E i \in 1..(Len(x) - 3) :
      /\ x[i] \in {"m", "M"}
      /\ x[i + 1] \in {"i", "I"}
      /\ x[i + 2] \in {"n", "N"}
      /\ x[i + 3] \in {"i", "I"}

\* C20: call_llm_analysis sends at most 200 events when the chosen model's
\* name (the override if given, else the configured one) holds "mini" in
\* any case, else at most 50; the events sent are the first min(len, cap) of
\* the input, in order; a string field longer than 150 characters becomes
\* its first 150 characters followed by "...", every other field is as it
\* was.
C20_PayloadCapped ==
    pl_pc = "payload" =>
      LET name == IF pl_model.given /\ pl_model.name # <<>>
                  THEN pl_model.name ELSE pl_configured
          cap == IF HasMini(name) THEN 200 ELSE 50
          n == IF Len(pl_events) < cap THEN Len(pl_events) ELSE cap
      IN  /\ Len(pl_sent) = n
          /\ \A i \in 1..n : \A k \in FieldNames :
               LET v == pl_events[i][k]
                   w == pl_sent[i][k]
               IN  IF v.t = "str" /\ Len(v.s) > 150
                   THEN /\ w.t = "str"
                        /\ Len(w.s) = 153
                        /\ \A j \in 1..150 : w.s[j] = v.s[j]
                        /\ \A j \in 151..153 : w.s[j] = "."
                   ELSE w = v

C20_Witness ==
    /\ pl_pc = "payload"
    /\ ~pl_model.given
    /\ pl_configured = NameMini
    /\ Len(pl_events) = 201
    /\ Len(pl_sent) = 200
    /\ Len(pl_events[200].text.s) = 151
    /\ Len(pl_sent[200].text.s) = 153
    /\ pl_sent[200].tags = pl_events[200].tags
    /\ pl_sent[200].id = FieldNum(200)

----------------------------------------------------------------------------
(* The reads of the event store: server.py and app/main.py                 *)
(* summarize_collection, load_events and query_collection, and             *)
(* consumer.py fetch_events.  The cursor hands out documents one at a time *)
(* and the driver's exception can come before any of them or between two.  *)
(* Of the arguments only start is modelled; end, source and text shape the *)
(* filter and nothing else.                                                *)

MaxDocs == 2  \* most documents a cursor hands out

ServerOps == {"server_summarize", "server_load_events", "server_query"}
AppOps == {"app_summarize", "app_load_events", "app_query"}
ConsumerOps == {"consumer_fetch_events"}
StoreOps == ServerOps \cup AppOps \cup ConsumerOps
SummarizeOps == {"server_summarize", "app_summarize"}
LoadOps == {"server_load_events", "app_load_events"}
QueryOps == {"server_query", "app_query"}

\* the driver's exceptions: the server cannot be reached, the server
\* rejects or aborts the query
StoreErrors == {"connection", "query"}
\* the zone of the host, which astimezone gives a naive datetime
HostZones == {"+00:00", "+05:00"}

ObjectId == JV("objectid", 0, "")
\* a document: the fields of an event and its _id
Doc(ev) == ("_id" :> ObjectId) @@ ev
StoreDocs ==
    {Doc(Event(ts, Num(500), Missing, Str("A"), Missing, Missing)) :
       ts \in {StoredAs(<<1, 1, 30>>, "native"), StoredAs(<<1, 2, 0>>, "z"), Garbage}}

\* the documents the filter lets through: app/main.py compares "timestamp"
\* with an ISO string, which no native datetime matches
CursorDocs(op, start) ==
    IF op = "app_load_events" \/ (op = "app_query" /\ start = "valid")
    THEN {d \in StoreDocs : d.timestamp.rep # "native"}
    ELSE StoreDocs

\* d.isoformat() as the value of "timestamp"
IsoString(d) == Stored("iso", d.day, d.hour, d.minute, d.tz)

\* projection={"_id": 0}, doc.pop("_id", None)
WithoutId(doc) == [k \in (DOMAIN doc) \ {"_id"} |-> doc[k]]
\* data["_id"] = str(data["_id"])
StrId(doc) == [doc EXCEPT !["_id"] = Str("objectid")]

\* server.py serialize_event
serialize_event(doc, host) ==
    LET ts == doc.timestamp
        d == DateTime(ts.day, ts.hour, ts.minute, IF ts.tz = "" THEN host ELSE ts.tz)
    IN  IF ts.rep = "native"
        THEN [StrId(doc) EXCEPT !.timestamp = IsoString(AsTimezoneUtc(d))]
        ELSE StrId(doc)

\* app/main.py serialize_event
serialize_eventApp(doc) == StrId(doc)

\* server.py load_events: the loop over the events read
load_events(docs) ==
    [i \in 1..Len(docs) |->
       LET ts == to_datetime(docs[i].timestamp)
       IN  IF ts.ok THEN [docs[i] EXCEPT !.timestamp = IsoString(ts.d)] ELSE docs[i]]

\* consumer.py fetch_events: the loop over docs
fetch_events(docs) ==
    [i \in 1..Len(docs) |->
       LET ts == docs[i].timestamp
           d == DateTime(ts.day, ts.hour, ts.minute, ts.tz)
       IN  WithoutId(IF ts.rep = "native"
                     THEN [docs[i] EXCEPT !.timestamp =
                             IsoString(IF d.tz = "" THEN ReplaceUtc(d) ELSE d)]
                     ELSE docs[i])]

RECURSIVE Bucketed(_, _, _, _)
\* buckets after "for ev in raw", started from the buckets b
Bucketed(impl, mode, b, raw) ==
    IF raw = <<>> THEN b
    ELSE Bucketed(impl, mode, ProcessRecord(impl, mode, b, Head(raw)), Tail(raw))

\* what a function handed back, and the exception it let through
Gave(value) == [kind |-> "returned", value |-> value]
LetThrough(err) == [kind |-> "raised", value |-> err]

\* query_collection's dict; error is "" and filtered FALSE where the key is
\* absent
QueryResult(count, items, error, filtered) ==
    [count |-> count, items |-> items, error |-> error, applied_filter |-> filtered]

ImplOf(op) == IF op \in ServerOps THEN "server" ELSE "app"

\* the except clause around the read, where there is one
OnStoreError(op, err) ==
    CASE op \in SummarizeOps \cup LoadOps -> Gave(<<>>)
      [] op \in QueryOps -> Gave(QueryResult(0, <<>>, err, TRUE))
      [] OTHER -> LetThrough(err)

\* the function from the end of the read to its return
OnStoreRead(op, mode, docs, limit_buckets, host) ==
    CASE op \in SummarizeOps ->
           Gave(Summary(mode,
                        Bucketed(ImplOf(op), mode, <<>>,
                                 [i \in 1..Len(docs) |-> WithoutId(docs[i])]),
                        limit_buckets))
      [] op = "server_load_events" -> Gave(load_events(docs))
      [] op = "app_load_events" ->
           Gave([i \in 1..Len(docs) |-> serialize_eventApp(docs[i])])
      [] op = "server_query" ->
           LET events == [i \in 1..Len(docs) |-> serialize_event(docs[i], host)]
           IN  Gave(QueryResult(Len(events), events, "", TRUE))
      [] op = "app_query" ->
           LET events == [i \in 1..Len(docs) |-> serialize_eventApp(docs[i])]
           IN  Gave(QueryResult(Len(events), events, "", TRUE))
      [] OTHER -> Gave(fetch_events(docs))

InitStore ==
    /\ sr_op \in StoreOps
    /\ sr_mode \in (IF sr_op \in SummarizeOps THEN {"3h", "day"} ELSE {"none"})
    /\ sr_start \in (IF sr_op \in QueryOps \cup ConsumerOps
                     THEN {"none", "valid", "invalid"} ELSE {"none"})
    /\ sr_docs = <<>>
    /\ sr_err = "none"
    /\ sr_out = [kind |-> "none"]
    /\ sr_pc = "call"
    /\ EarlierIdle
    /\ AdaptIdle
    /\ SumIdle
    /\ PermIdle
    /\ PayIdle

\* the code before find: query_collection returns on a start it cannot
\* parse, fetch_events falls back to the last hour
BuildFilter ==
    /\ sr_pc = "call"
    /\ IF sr_op \in QueryOps /\ sr_start = "invalid"
       THEN /\ sr_out' = Gave(QueryResult(0, <<>>, "invalid start (ISO8601)", FALSE))
            /\ sr_pc' = "done"
       ELSE /\ sr_out' = sr_out
            /\ sr_pc' = "cursor"
    /\ UNCHANGED <<sr_op, sr_mode, sr_start, sr_docs, sr_err>>
    /\ UNCHANGED <<earlierVars, adaptVars, sumVars, permVars, payVars>>

\* the cursor hands out one more document
CursorNext ==
    /\ sr_pc = "cursor"
    /\ Len(sr_docs) < MaxDocs
    /\ \E d \in CursorDocs(sr_op, sr_start) : sr_docs' = Append(sr_docs, d)
    /\ UNCHANGED <<sr_op, sr_mode, sr_start, sr_err, sr_out, sr_pc>>
    /\ UNCHANGED <<earlierVars, adaptVars, sumVars, permVars, payVars>>

\* the driver raises while the cursor is read
CursorFails ==
    /\ sr_pc = "cursor"
    /\ \E err \in StoreErrors :
         /\ sr_err' = err
         /\ sr_out' = OnStoreError(sr_op, err)
    /\ sr_pc' = "done"
    /\ UNCHANGED <<sr_op, sr_mode, sr_start, sr_docs>>
    /\ UNCHANGED <<earlierVars, adaptVars, sumVars, permVars, payVars>>

\* the cursor is exhausted and the function goes on to its return
CursorEnds ==
    /\ sr_pc = "cursor"
    /\ \E limit \in 1..MaxLimit : \E host \in HostZones :
         sr_out' = OnStoreRead(sr_op, sr_mode, sr_docs, limit, host)
    /\ sr_pc' = "done"
    /\ UNCHANGED <<sr_op, sr_mode, sr_start, sr_docs, sr_err>>
    /\ UNCHANGED <<earlierVars, adaptVars, sumVars, permVars, payVars>>

NextStore == BuildFilter \/ CursorNext \/ CursorFails \/ CursorEnds
SpecStore == InitStore /\ [][NextStore]_vars

\* C21: a connection or query error during any read of the event store
\* never reaches the caller: summarize_collection and load_events return an
\* empty sequence, query_collection returns count 0, no items and an error
\* field, and the consumer's fetch_events returns an empty result as well.
C21_StorageFailureDegrades ==
    (sr_pc = "done" /\ sr_err \in {"connection", "query"}) =>
      /\ sr_out.kind = "returned"
      /\ sr_op \in SummarizeOps \cup LoadOps \cup ConsumerOps => sr_out.value = <<>>
      /\ sr_op \in QueryOps =>
           /\ sr_out.value.count = 0
           /\ sr_out.value.items = <<>>
           /\ sr_out.value.error # ""

====
